---- MODULE Spec2Model ----
(***************************************************************************)
(* Model of the replica-level command pipeline of storage/range.go:        *)
(* ReadOnlyCmd, ReadWriteCmd, EnqueueCmd, processRaft, executeCmd and the  *)
(* storage operations they dispatch to, with the timestamp cache, the read *)
(* queue and the response cache they use.                                  *)
(***************************************************************************)
EXTENDS Integers, Sequences, FiniteSets, TLC

\* ---------------------------------------------------------------- bounds
NProcs == 2      \* concurrent caller goroutines
MaxCalls == 2    \* total number of ReadOnlyCmd / ReadWriteCmd calls issued
NKeys == 2       \* keys are 1..NKeys, ordered as integers
MaxWall == 1     \* wall component of client supplied timestamps, 0..MaxWall
NCmdIDs == 2     \* client command ids are 1..NCmdIDs
MaxAttrs == 2    \* length of an attribute list

\* raft: make(chan *Cmd, 10)
RaftCap == 10

Procs == 1..NProcs
Keys == 1..NKeys
CmdIDs == 1..NCmdIDs
Values == 1..2

\* a nil byte slice / an empty key
Nil == 0
\* a nil error
NoErr == "nil"
\* an absent response cache entry
None == <<>>

\* ------------------------------------------------------------ timestamps
ZeroTS == [wall |-> 0, logical |-> 0]

\* hlc timestamp order used by header.Timestamp.Less(ts)
Less(a, b) ==
    \/ a.wall < b.wall
    \/ a.wall = b.wall /\ a.logical < b.logical

\* ts.Logical++
LogicalInc(ts) == [ts EXCEPT !.logical = @ + 1]

ClientTimestamps == {[wall |-> w, logical |-> 0] : w \in 0..MaxWall}

\* --------------------------------------------------------------- methods
Contains == "Contains"
Get == "Get"
Put == "Put"
ConditionalPut == "ConditionalPut"
Increment == "Increment"
Scan == "Scan"
Delete == "Delete"
DeleteRange == "DeleteRange"
EndTransaction == "EndTransaction"
AccumulateTS == "AccumulateTS"
ReapQueue == "ReapQueue"
EnqueueUpdate == "EnqueueUpdate"
EnqueueMessage == "EnqueueMessage"
InternalRangeLookup == "InternalRangeLookup"
\* a method name outside the API
Bogus == "Bogus"

KnownMethods ==
    {Contains, Get, Put, ConditionalPut, Increment, Scan, Delete, DeleteRange,
     EndTransaction, AccumulateTS, ReapQueue, EnqueueUpdate, EnqueueMessage,
     InternalRangeLookup}

readMethods ==
    {Contains, Get, ConditionalPut, Increment, Scan, ReapQueue,
     InternalRangeLookup}

writeMethods ==
    {Put, ConditionalPut, Increment, Delete, DeleteRange, EndTransaction,
     AccumulateTS, ReapQueue, EnqueueUpdate, EnqueueMessage}

\* a NeedReadPerm that holds of the read-only methods alone
NeedReadPerm_ReadOnly(method) == method \notin writeMethods

NeedReadPerm(method) == method \in readMethods

NeedWritePerm(method) == method \in writeMethods

IsReadOnly(method) == ~NeedWritePerm(method)

\* ------------------------------------------------------------ key ranges
\* end of the interval [start, end): an empty end key stands for the single
\* key start
EndOf(start, end) == IF end = Nil THEN start + 1 ELSE end

Overlaps(s1, e1, s2, e2) ==
    /\ s1 < EndOf(s2, e2)
    /\ s2 < EndOf(s1, e1)

\* ------------------------------------------------------- timestamp cache
\* the greater of two timestamps
TSMax(a, b) == IF Less(a, b) THEN b ELSE a

\* the greatest timestamp of a finite set, the zero timestamp if it is empty
TSMaxOf(S) ==
    IF S = {} THEN ZeroTS
    ELSE CHOOSE m \in S : \A t \in S : ~Less(m, t)

\* tsCache keeps the recorded reads coalesced: for every key the greatest
\* timestamp of a recorded read whose range covers it, the zero timestamp
\* when there is none
TSCacheAdd(cache, start, end, ts) ==
    [k \in Keys |-> IF Overlaps(start, end, k, Nil) THEN TSMax(cache[k], ts)
                    ELSE cache[k]]

TSCacheGetMax(cache, start, end) ==
    TSMaxOf({cache[k] : k \in {x \in Keys : Overlaps(start, end, x, Nil)}})

\* ------------------------------------------------------------ read queue
\* readQ.writes: pending writes [h, start, end]; readQ.waits[p]: the pending
\* writes the WaitGroup of reader p still counts; the handle h of a pending
\* write is the index of the caller that added it
ReadQAddRead(q, start, end, p) ==
    [q EXCEPT !.waits[p] =
        {w.h : w \in {x \in q.writes : Overlaps(x.start, x.end, start, end)}}]

ReadQAddWrite(q, start, end, h) ==
    [q EXCEPT !.writes = @ \cup {[h |-> h, start |-> start, end |-> end]}]

ReadQRemoveWrite(q, h) ==
    [writes |-> {w \in q.writes : w.h # h},
     waits |-> [p \in Procs |-> q.waits[p] \ {h}]]

\* -------------------------------------------------------- response cache
\* the stored form of a reply
EncodeReply(r) ==
    <<r.Timestamp.wall, r.Timestamp.logical, r.Error, r.Value, r.Exists,
      r.ActualValue, r.NewValue>>

DecodeReply(e) ==
    [Timestamp |-> [wall |-> e[1], logical |-> e[2]],
     Error |-> e[3], Value |-> e[4], Exists |-> e[5],
     ActualValue |-> e[6], NewValue |-> e[7]]

\* PutResponse: store the reply under cmdID (unless the engine write fails)
\* and end the in-flight mark of cmdID
RespCachePut(rc, cmdID, reply, fail) ==
    [store |-> IF fail THEN rc.store
               ELSE [rc.store EXCEPT ![cmdID] = EncodeReply(reply)],
     inflight |-> rc.inflight \ {cmdID}]

\* ---------------------------------------------------------------- replies
EmptyReply ==
    [Timestamp |-> ZeroTS, Error |-> NoErr, Value |-> Nil, Exists |-> FALSE,
     ActualValue |-> Nil, NewValue |-> 0]

NoArgs ==
    [CmdID |-> 0, Key |-> Nil, EndKey |-> Nil, Timestamp |-> ZeroTS,
     Value |-> Nil, ExpValue |-> Nil, Increment |-> 0]

\* ------------------------------------------------------ storage operations
\* Each operation maps (args, reply, engine, an engine call failing) to the
\* engine and reply it leaves behind; puts is the number of engine.put /
\* engine.clear calls that were issued.
EngineErr == "engine error"

Unimplemented(reply, eng) ==
    [engine |-> eng, reply |-> [reply EXCEPT !.Error = "unimplemented"],
     puts |-> 0]

ContainsOp(args, reply, eng, engFail) ==
    [engine |-> eng,
     reply |-> IF engFail THEN [reply EXCEPT !.Error = EngineErr]
               ELSE IF eng[args.Key] # Nil THEN [reply EXCEPT !.Exists = TRUE]
               ELSE reply,
     puts |-> 0]

GetOp(args, reply, eng, engFail) ==
    [engine |-> eng,
     reply |-> IF engFail
               THEN [reply EXCEPT !.Value = Nil, !.Error = EngineErr]
               ELSE [reply EXCEPT !.Value = eng[args.Key], !.Error = NoErr],
     puts |-> 0]

\* an internalPut that reports success without writing
internalPut_NoWrite(key, value, eng, engFail) ==
    [engine |-> eng, err |-> NoErr]

\* internalPut returns the engine after the put and the error of the put; no
\* key of Keys lies under a configuration prefix
internalPut(key, value, eng, engFail) ==
    IF engFail THEN [engine |-> eng, err |-> EngineErr]
    ELSE [engine |-> [eng EXCEPT ![key] = value], err |-> NoErr]

PutOp(args, reply, eng, engFail) ==
    LET r == internalPut(args.Key, args.Value, eng, engFail)
    IN  [engine |-> r.engine, reply |-> [reply EXCEPT !.Error = r.err],
         puts |-> 1]

\* engFail: r.engine.get fails; putFail: r.engine.put in internalPut fails
ConditionalPutOp(args, reply, eng, engFail, putFail) ==
    LET val == eng[args.Key]
        r == internalPut(args.Key, args.Value, eng, putFail)
    IN  IF engFail
        THEN [engine |-> eng, reply |-> [reply EXCEPT !.Error = EngineErr],
              puts |-> 0]
        ELSE IF args.ExpValue = Nil /\ val # Nil
        THEN [engine |-> eng,
              reply |-> [reply EXCEPT !.Error = "key already exists"],
              puts |-> 0]
        ELSE IF args.ExpValue # Nil /\ val = Nil
        THEN [engine |-> eng,
              reply |-> [reply EXCEPT !.Error = "key does not exist"],
              puts |-> 0]
        ELSE IF args.ExpValue # Nil /\ args.ExpValue # val
        THEN [engine |-> eng,
              reply |-> [reply EXCEPT !.ActualValue = val,
                                      !.Error = "key does not match existing"],
              puts |-> 0]
        ELSE [engine |-> r.engine, reply |-> [reply EXCEPT !.Error = r.err],
              puts |-> 1]

\* increment(engine, key, inc): an absent value counts as zero
IncrementOp(args, reply, eng, engFail) ==
    LET new == eng[args.Key] + args.Increment
    IN  IF engFail
        THEN [engine |-> eng, reply |-> [reply EXCEPT !.Error = EngineErr],
              puts |-> 0]
        ELSE [engine |-> [eng EXCEPT ![args.Key] = new],
              reply |-> [reply EXCEPT !.NewValue = new, !.Error = NoErr],
              puts |-> 1]

DeleteOp(args, reply, eng, engFail) ==
    IF engFail
    THEN [engine |-> eng, reply |-> [reply EXCEPT !.Error = EngineErr],
          puts |-> 1]
    ELSE [engine |-> [eng EXCEPT ![args.Key] = Nil], reply |-> reply,
          puts |-> 1]

\* rows of engine.scan(start, end, 0) as the set of keys found
ScanOp(args, reply, eng, engFail) ==
    [engine |-> eng,
     reply |-> IF engFail THEN [reply EXCEPT !.Error = EngineErr]
               ELSE [reply EXCEPT !.Value =
                        Cardinality({k \in Keys : /\ args.Key <= k
                                                  /\ k < args.EndKey
                                                  /\ eng[k] # Nil})],
     puts |-> 0]

\* no key of Keys carries the metadata prefix
InternalRangeLookupOp(args, reply, eng) ==
    [engine |-> eng,
     reply |-> [reply EXCEPT !.Error = "invalid metadata key"],
     puts |-> 0]

\* the switch of executeCmd
Dispatch(method, args, reply, eng, engFail) ==
    CASE method = Contains -> ContainsOp(args, reply, eng, engFail)
      [] method = Get -> GetOp(args, reply, eng, engFail)
      [] method = Put -> PutOp(args, reply, eng, engFail)
      [] method = ConditionalPut ->
            ConditionalPutOp(args, reply, eng, engFail, engFail)
      [] method = Increment -> IncrementOp(args, reply, eng, engFail)
      [] method = Delete -> DeleteOp(args, reply, eng, engFail)
      [] method = DeleteRange -> Unimplemented(reply, eng)
      [] method = Scan -> ScanOp(args, reply, eng, engFail)
      [] method = EndTransaction -> Unimplemented(reply, eng)
      [] method = AccumulateTS -> Unimplemented(reply, eng)
      [] method = ReapQueue -> Unimplemented(reply, eng)
      [] method = EnqueueUpdate -> Unimplemented(reply, eng)
      [] method = EnqueueMessage -> Unimplemented(reply, eng)
      [] method = InternalRangeLookup -> InternalRangeLookupOp(args, reply, eng)

UnrecognizedErr == "unrecognized command type"

\* executeCmd adding the reply to the response cache before the operation ran
executeCmd_CacheStale(method, args, reply, eng, rc, engFail, putFail) ==
    IF method \notin KnownMethods
    THEN [engine |-> eng, reply |-> reply, respCache |-> rc,
          err |-> UnrecognizedErr, executed |-> FALSE, cached |-> FALSE,
          puts |-> 0]
    ELSE LET d == Dispatch(method, args, reply, eng, engFail)
         IN  [engine |-> d.engine, reply |-> d.reply,
              respCache |-> IF ~IsReadOnly(method)
                            THEN RespCachePut(rc, args.CmdID, reply, putFail)
                            ELSE rc,
              err |-> d.reply.Error, executed |-> TRUE,
              cached |-> ~IsReadOnly(method), puts |-> d.puts]

\* executeCmd adding the reply of a method it does not know to the response
\* cache
executeCmd_CacheUnknown(method, args, reply, eng, rc, engFail, putFail) ==
    IF method \notin KnownMethods
    THEN [engine |-> eng, reply |-> reply,
          respCache |-> RespCachePut(rc, args.CmdID, reply, putFail),
          err |-> UnrecognizedErr, executed |-> FALSE, cached |-> FALSE,
          puts |-> 0]
    ELSE LET d == Dispatch(method, args, reply, eng, engFail)
         IN  [engine |-> d.engine, reply |-> d.reply,
              respCache |-> IF ~IsReadOnly(method)
                            THEN RespCachePut(rc, args.CmdID, d.reply, putFail)
                            ELSE rc,
              err |-> d.reply.Error, executed |-> TRUE,
              cached |-> ~IsReadOnly(method), puts |-> d.puts]

\* executeCmd adding only replies without an error to the response cache
executeCmd_CacheOnSuccess(method, args, reply, eng, rc, engFail, putFail) ==
    IF method \notin KnownMethods
    THEN [engine |-> eng, reply |-> reply, respCache |-> rc,
          err |-> UnrecognizedErr, executed |-> FALSE, cached |-> FALSE,
          puts |-> 0]
    ELSE LET d == Dispatch(method, args, reply, eng, engFail)
             put == ~IsReadOnly(method) /\ d.reply.Error = NoErr
         IN  [engine |-> d.engine, reply |-> d.reply,
              respCache |-> IF put
                            THEN RespCachePut(rc, args.CmdID, d.reply, putFail)
                            ELSE rc,
              err |-> d.reply.Error, executed |-> TRUE,
              cached |-> put, puts |-> d.puts]

\* executeCmd returning the error of the response cache write to its caller
executeCmd_ReturnPutErr(method, args, reply, eng, rc, engFail, putFail) ==
    IF method \notin KnownMethods
    THEN [engine |-> eng, reply |-> reply, respCache |-> rc,
          err |-> UnrecognizedErr, executed |-> FALSE, cached |-> FALSE,
          puts |-> 0]
    ELSE LET d == Dispatch(method, args, reply, eng, engFail)
         IN  [engine |-> d.engine, reply |-> d.reply,
              respCache |-> IF ~IsReadOnly(method)
                            THEN RespCachePut(rc, args.CmdID, d.reply, putFail)
                            ELSE rc,
              err |-> IF ~IsReadOnly(method) /\ putFail
                      THEN "response cache write error"
                      ELSE d.reply.Error,
              executed |-> TRUE,
              cached |-> ~IsReadOnly(method), puts |-> d.puts]

\* executeCmd: dispatch, add the reply of a read/write method to the response
\* cache, return the error set in the reply.  executed tells whether an
\* operation ran, cached whether PutResponse was called.
executeCmd(method, args, reply, eng, rc, engFail, putFail) ==
    IF method \notin KnownMethods
    THEN [engine |-> eng, reply |-> reply, respCache |-> rc,
          err |-> UnrecognizedErr, executed |-> FALSE, cached |-> FALSE,
          puts |-> 0]
    ELSE LET d == Dispatch(method, args, reply, eng, engFail)
         IN  [engine |-> d.engine, reply |-> d.reply,
              respCache |-> IF ~IsReadOnly(method)
                            THEN RespCachePut(rc, args.CmdID, d.reply, putFail)
                            ELSE rc,
              err |-> d.reply.Error, executed |-> TRUE,
              cached |-> ~IsReadOnly(method), puts |-> d.puts]

\* ------------------------------------------------------------------ state
VARIABLES
    engine,      \* r.engine: key -> value, Nil when absent
    tsCache,     \* r.tsCache
    readQ,       \* r.readQ
    respCache,   \* r.respCache: stored replies and in-flight command ids
    raft,        \* r.raft: the channel of submitted Cmds
    done,        \* cmd.done of the Cmd of each caller
    closer,      \* r.closer has been closed
    raftPc,      \* position of the processRaft goroutine
    lock,        \* holder of the Range mutex, 0 when free
    pc,          \* position of each caller
    method,      \* method of the call of each caller
    args,        \* args (with the request header) of the call of each caller
    reply,       \* reply of the call of each caller
    wKey,        \* handle returned by readQ.AddWrite
    cmdArgs,     \* the request a client issued under each ClientCmdID
    ncalls,      \* number of calls issued
    meta,        \* r.Meta.RangeDescriptor: StartKey and EndKey of the range
    configs,     \* the rows of r.engine under the configuration prefixes
    dirty,       \* configPrefixes[i].dirty
    gossip,      \* r.gossip: NilGossip, or the infos added so far
    gossipPc,    \* position of the startGossip goroutine
    gossipFault, \* the step of a configuration rebroadcast that fails
    probe,       \* the last direct call of a pure function, with its result
    hist         \* history of the run, see HistInit

vars ==
    <<engine, tsCache, readQ, respCache, raft, done, closer, raftPc, lock, pc,
      method, args, reply, wKey, cmdArgs, ncalls, meta, configs, dirty,
      gossip, gossipPc, gossipFault, probe, hist>>

\* the state of the configuration gossip and of the direct calls
gossipVars == <<meta, configs, dirty, gossip, gossipPc, gossipFault, probe>>

\* ----------------------------------------------- keys of the whole key space
\* KeyMin is the empty key
KeyMin == Nil

\* configPrefixes has three entries: accounting, permission, zone
NPrefixes == 3

Prefixes == 1..NPrefixes

\* cp.keyPrefix of entry i of configPrefixes: the configuration prefixes lie
\* past the keys of Keys, one row of the engine under each
keyPrefix(i) == NKeys + i

KeyMax == NKeys + NPrefixes + 1

\* a ContainsKey that takes the end key for a key of the range
ContainsKey_Inclusive(desc, key) ==
    ~(key < desc.StartKey) /\ ~(desc.EndKey < key)

\* RangeDescriptor.ContainsKey: !key.Less(r.StartKey) && key.Less(r.EndKey)
ContainsKey(desc, key) == ~(key < desc.StartKey) /\ key < desc.EndKey

\* Range.IsFirstRange
IsFirstRange(desc) == desc.StartKey = KeyMin

\* a Range constructed without a gossip handle
NilGossip == <<>>

\* a gossip handle to which no info has been added: the cluster id, the first
\* range and the configuration map of each prefix that were added, and per
\* prefix whether its last rebroadcast failed and was logged
NoInfos ==
    <<[clusterID |-> FALSE, firstRange |-> FALSE,
       configs |-> [i \in Prefixes |-> None],
       failed |-> [i \in Prefixes |-> FALSE]]>>

\* the range of the whole key space
WholeRange == [StartKey |-> KeyMin, EndKey |-> KeyMax]

\* History kept for stating properties; no action reads it.
\*   maxRead    per key: greatest timestamp of the reads registered so far
\*              (ReadOnlyCmd under the lock) over a range with that key
\*   seen       per caller: the greatest timestamp of the overlapping reads
\*              registered before its timestamp check, <<>> if there is none
\*   pend       per reader: the callers whose overlapping write was pending
\*              when it registered and has not been removed since
\*   behind     per reader: it registered while an overlapping write was
\*              pending
\*   lookup     per caller: outcome of its response cache lookup
\*   after      per caller: number of calls of its ClientCmdID that had
\*              returned when its call began
\*   sub        per caller: its Cmd was sent to r.raft
\*   results    per ClientCmdID: of each returned call, in the order of
\*              return, the reply, the error, the header timestamp it left,
\*              and after, lookup, sub of the call
\*   execs      per ClientCmdID: executions of its operation by executeCmd
\*   puts       per ClientCmdID: engine.put / engine.clear calls issued
\*   fault      per ClientCmdID: a response cache read or write failed
\*   engfault   per ClientCmdID: an engine call of its operation failed
\*   waited     a read that registered behind an overlapping write has run
\*   passes     parity of the number of passes of the startGossip ticker
\*   unblocked  a read has registered over the range of a write that had
\*              returned with an error, and found nothing to wait for
HistInit ==
    [maxRead |-> [k \in Keys |-> <<>>],
     seen |-> [p \in Procs |-> <<>>],
     pend |-> [p \in Procs |-> {}],
     behind |-> [p \in Procs |-> FALSE],
     lookup |-> [p \in Procs |-> "none"],
     after |-> [p \in Procs |-> 0],
     sub |-> [p \in Procs |-> FALSE],
     results |-> [c \in CmdIDs |-> <<>>],
     execs |-> [c \in CmdIDs |-> 0],
     puts |-> [c \in CmdIDs |-> 0],
     fault |-> [c \in CmdIDs |-> FALSE],
     engfault |-> [c \in CmdIDs |-> FALSE],
     waited |-> FALSE,
     unblocked |-> FALSE,
     passes |-> 0]

Init ==
    /\ engine = [k \in Keys |-> Nil]
    /\ tsCache = [k \in Keys |-> ZeroTS]
    /\ readQ = [writes |-> {}, waits |-> [p \in Procs |-> {}]]
    /\ respCache = [store |-> [c \in CmdIDs |-> None], inflight |-> {}]
    /\ raft = <<>>
    /\ done = [p \in Procs |-> None]
    /\ closer = FALSE
    /\ raftPc = "init"
    /\ lock = 0
    /\ pc = [p \in Procs |-> "idle"]
    /\ method = [p \in Procs |-> ""]
    /\ args = [p \in Procs |-> NoArgs]
    /\ reply = [p \in Procs |-> EmptyReply]
    /\ wKey = [p \in Procs |-> 0]
    /\ cmdArgs = [c \in CmdIDs |-> None]
    /\ ncalls = 0
    /\ hist = HistInit
    /\ meta = WholeRange
    /\ configs = [i \in Prefixes |-> Nil]
    /\ dirty = [i \in Prefixes |-> TRUE]
    /\ gossip = NilGossip
    /\ gossipPc = "init"
    /\ gossipFault = "none"
    /\ probe = None

\* ----------------------------------------------------------------- inputs
\* the requests callers issue. Reads: of the first key at any client
\* timestamp, of every other key at the latest one. Writes: a Put of the first
\* key at any client timestamp and, at the zero timestamp, a DeleteRange of
\* the whole key range and a call under an unknown method name
LatestTS == [wall |-> MaxWall, logical |-> 0]

ReadRequests ==
    {<<Get, [NoArgs EXCEPT !.Key = 1, !.Timestamp = ts]>> :
        ts \in ClientTimestamps}
    \cup
    {<<Get, [NoArgs EXCEPT !.Key = k, !.Timestamp = LatestTS]>> :
        k \in Keys \ {1}}

WriteRequests(c) ==
    {<<Put, [NoArgs EXCEPT !.CmdID = c, !.Key = 1, !.Timestamp = ts,
                          !.Value = 1]>> :
        ts \in ClientTimestamps}
    \cup
    {<<DeleteRange, [NoArgs EXCEPT !.CmdID = c, !.Key = 1,
                                  !.EndKey = NKeys + 1]>>,
     <<Bogus, [NoArgs EXCEPT !.CmdID = c, !.Key = 1]>>}

\* client command ids are taken into use in order
FreshCmdID(c) == \A d \in CmdIDs : d < c => cmdArgs[d] # None

\* callers are interchangeable: the idle caller of least index makes the call
NextCaller(p) ==
    /\ pc[p] = "idle"
    /\ \A q \in Procs : q < p => pc[q] # "idle"
    /\ ncalls < MaxCalls

\* a call returns: its locals go out of scope
Return(p) ==
    /\ pc' = [pc EXCEPT ![p] = "idle"]
    /\ method' = [method EXCEPT ![p] = ""]
    /\ args' = [args EXCEPT ![p] = NoArgs]
    /\ reply' = [reply EXCEPT ![p] = EmptyReply]
    /\ wKey' = [wKey EXCEPT ![p] = 0]

ClearCall(h, p) ==
    [h EXCEPT !.seen[p] = <<>>, !.pend[p] = {}, !.behind[p] = FALSE,
              !.lookup[p] = "none",
              !.after[p] = 0, !.sub[p] = FALSE]

\* ------------------------------------------------------------ ReadOnlyCmd
\* an Unlock that leaves the mutex with its holder
Unlock_Held(p) == p

\* the holder of the mutex after r.Unlock()
Unlock(p) == 0

IsLeader == TRUE

NotLeaderErr == "not leader"

\* a caller issues ReadOnlyCmd(method, header, args, reply): r.Lock()
ReadOnlyCmd_Lock(p) ==
    /\ NextCaller(p)
    /\ lock = 0
    /\ \E rq \in ReadRequests :
        /\ method' = [method EXCEPT ![p] = rq[1]]
        /\ args' = [args EXCEPT ![p] = rq[2]]
    /\ ncalls' = ncalls + 1
    /\ lock' = p
    /\ pc' = [pc EXCEPT ![p] = "ro_reg"]
    /\ UNCHANGED <<engine, tsCache, readQ, respCache, raft, done, closer,
                   raftPc, reply, wKey, cmdArgs, hist,
                   gossipVars>>

\* the calls between AddWrite and RemoveWrite
Pending == {q \in Procs : pc[q] \in {"rw_send", "rw_recv", "rw_remove"}}

\* the pending calls whose range overlaps [start, end)
WritesInFlight(start, end) ==
    {q \in Pending : Overlaps(args[q].Key, args[q].EndKey, start, end)}

\* the overlapping writes that returned with an error before
FailedWrites(start, end) ==
    {c \in CmdIDs :
        /\ cmdArgs[c] # None
        /\ Overlaps(cmdArgs[c][2].Key, cmdArgs[c][2].EndKey, start, end)
        /\ \E i \in DOMAIN hist.results[c] :
            /\ hist.results[c][i].err # NoErr
            /\ hist.results[c][i].lookup # "hit"}

\* r.tsCache.Add(...); r.readQ.AddRead(..., &wg); r.Unlock()
ReadOnlyCmd_Register(p) ==
    /\ pc[p] = "ro_reg"
    /\ tsCache' = TSCacheAdd(tsCache, args[p].Key, args[p].EndKey,
                             args[p].Timestamp)
    /\ readQ' = ReadQAddRead(readQ, args[p].Key, args[p].EndKey, p)
    /\ lock' = Unlock(p)
    /\ pc' = [pc EXCEPT ![p] = "ro_wait"]
    /\ hist' = [hist EXCEPT
            !.maxRead = [k \in Keys |->
                IF ~Overlaps(args[p].Key, args[p].EndKey, k, Nil) THEN @[k]
                ELSE IF @[k] = <<>> THEN <<args[p].Timestamp>>
                ELSE <<TSMax(@[k][1], args[p].Timestamp)>>],
            !.pend[p] = WritesInFlight(args[p].Key, args[p].EndKey),
            !.behind[p] = WritesInFlight(args[p].Key, args[p].EndKey) # {},
            !.unblocked = @ \/ (/\ FailedWrites(args[p].Key, args[p].EndKey) # {}
                                /\ readQ'.waits[p] = {})]
    /\ UNCHANGED <<engine, respCache, raft, done, closer, raftPc, method,
                   args, reply, wKey, cmdArgs, ncalls,
                   gossipVars>>

\* a read that does not wait for the pending writes
WaitDone_NoWait(q, p) == TRUE

\* wg.Wait() has returned
WaitDone(q, p) == q.waits[p] = {}

\* a ReadOnlyCmd that hands its command to r.raft
ReadOnlyRaft_Enqueue(ch, p) ==
    Append(ch, [owner |-> p, Method |-> method[p], ReadOnly |-> TRUE])

\* r.raft after ReadOnlyCmd, which calls r.executeCmd itself
ReadOnlyRaft(ch, p) == ch

\* wg.Wait(); if !r.IsLeader() { return &NotLeaderError{} }
\* return r.executeCmd(method, args, reply)
ReadOnlyCmd_Exec(p) ==
    /\ pc[p] = "ro_wait"
    /\ WaitDone(readQ, p)
    /\ raft' = ReadOnlyRaft(raft, p)
    /\ \E engFail \in BOOLEAN, putFail \in BOOLEAN :
        LET x == executeCmd(method[p], args[p], reply[p], engine, respCache,
                            engFail, putFail)
        IN  IF ~IsLeader
            THEN UNCHANGED <<engine, respCache>>
            ELSE /\ engine' = x.engine
                 /\ respCache' = x.respCache
    /\ Return(p)
    /\ hist' = [ClearCall(hist, p) EXCEPT !.waited = @ \/ hist.behind[p]]
    /\ UNCHANGED <<tsCache, readQ, done, closer, raftPc, lock, cmdArgs,
                   ncalls,
                   gossipVars>>

\* ----------------------------------------------------------- ReadWriteCmd
DecodeErr == "decode error"

\* r.respCache.GetResponse(cmdID, reply): found with the stored reply, not
\* found, or found but undecodable; a command that was not answered from the
\* cache is marked in flight
GetResponse(rc, cmdID, decodeFail) ==
    IF rc.store[cmdID] = None
    THEN [ok |-> FALSE, err |-> NoErr, reply |-> EmptyReply,
          respCache |-> [rc EXCEPT !.inflight = @ \cup {cmdID}]]
    ELSE IF decodeFail
    THEN [ok |-> FALSE, err |-> DecodeErr, reply |-> EmptyReply,
          respCache |-> [rc EXCEPT !.inflight = @ \cup {cmdID}]]
    ELSE [ok |-> TRUE, err |-> NoErr, reply |-> DecodeReply(rc.store[cmdID]),
          respCache |-> rc]

\* a ReadWriteCmd that never answers from the response cache
IsReplay_Never(ok, lookupErr) == FALSE

\* a ReadWriteCmd that fails the request when the lookup fails
IsReplay_OrError(ok, lookupErr) == ok \/ lookupErr # NoErr

\* the outcome of the lookup on which ReadWriteCmd returns at once
IsReplay(ok, lookupErr) == ok

\* a timestamp check that leaves header.Timestamp as the client set it
ForwardTimestamp_Keep(ts, max) == ts

\* header.Timestamp after the check against the timestamp cache
ForwardTimestamp(ts, max) ==
    IF Less(ts, max) THEN LogicalInc(max) ELSE ts

\* a timestamp check that forwards the header only
ReplyTimestamp_Unset(replyTs, ts, max) == replyTs

\* reply.Timestamp after the check against the timestamp cache
ReplyTimestamp(replyTs, ts, max) ==
    IF Less(ts, max) THEN LogicalInc(max) ELSE replyTs

\* a caller issues ReadWriteCmd(method, header, args, reply); a ClientCmdID
\* names one request, a retry repeats it
ReadWriteCmd_Call(p) ==
    /\ NextCaller(p)
    /\ \E c \in CmdIDs :
        /\ FreshCmdID(c)
        /\ \E rq \in (IF cmdArgs[c] = None THEN WriteRequests(c)
                      ELSE {cmdArgs[c]}) :
            /\ method' = [method EXCEPT ![p] = rq[1]]
            /\ args' = [args EXCEPT ![p] = rq[2]]
            /\ cmdArgs' = [cmdArgs EXCEPT ![c] = rq]
        /\ hist' = [hist EXCEPT !.after[p] = Len(hist.results[c])]
    /\ ncalls' = ncalls + 1
    /\ pc' = [pc EXCEPT ![p] = "rw_get"]
    /\ UNCHANGED <<engine, tsCache, readQ, respCache, raft, done, closer,
                   raftPc, lock, reply, wKey,
                   gossipVars>>

\* the history once the call of p has returned reply r and error e
Finished(h, p, r, e) ==
    ClearCall([h EXCEPT !.results[args[p].CmdID] =
                  Append(@, [reply |-> r, err |-> e,
                             ts |-> args[p].Timestamp, after |-> h.after[p],
                             lookup |-> h.lookup[p], sub |-> h.sub[p]])], p)

\* if ok, err := r.respCache.GetResponse(header.CmdID, reply); ok || err != nil
\* with the return of the replay, or else up to r.Lock()
ReadWriteCmd_GetResponse(p) ==
    /\ pc[p] = "rw_get"
    /\ args[p].CmdID \notin respCache.inflight
    /\ \E decodeFail \in BOOLEAN :
        LET c == args[p].CmdID
            g == GetResponse(respCache, c, decodeFail)
            r == IF g.ok THEN g.reply ELSE reply[p]
            look == IF g.ok THEN "hit"
                    ELSE IF g.err # NoErr THEN "error" ELSE "miss"
            h == [hist EXCEPT !.lookup[p] = look,
                              !.fault[c] = @ \/ g.err # NoErr]
        IN  /\ respCache' = g.respCache
            /\ IF IsReplay(g.ok, g.err)
               THEN /\ Return(p)
                    /\ hist' = Finished(h, p, r,
                                        IF g.ok THEN r.Error ELSE g.err)
               ELSE /\ reply' = [reply EXCEPT ![p] = r]
                    /\ pc' = [pc EXCEPT ![p] = "rw_lock"]
                    /\ hist' = h
                    /\ UNCHANGED <<method, args, wKey>>
    /\ UNCHANGED <<engine, tsCache, readQ, raft, done, closer, raftPc, lock,
                   cmdArgs, ncalls,
                   gossipVars>>

\* r.Lock()
ReadWriteCmd_Lock(p) ==
    /\ pc[p] = "rw_lock"
    /\ lock = 0
    /\ lock' = p
    /\ pc' = [pc EXCEPT ![p] = "rw_book"]
    /\ UNCHANGED <<engine, tsCache, readQ, respCache, raft, done, closer,
                   raftPc, method, args, reply, wKey, cmdArgs, ncalls, hist,
                   gossipVars>>

\* the greatest timestamp among the registered reads overlapping
\* [start, end), in a tuple that is empty when there is no such read
MaxRead(start, end) ==
    LET S == {hist.maxRead[k][1] : k \in {x \in Keys :
                /\ Overlaps(start, end, x, Nil)
                /\ hist.maxRead[x] # <<>>}}
    IN  IF S = {} THEN <<>> ELSE <<TSMaxOf(S)>>

\* the timestamp check, r.readQ.AddWrite(...), r.Unlock()
ReadWriteCmd_Bookkeep(p) ==
    /\ pc[p] = "rw_book"
    /\ LET max == TSCacheGetMax(tsCache, args[p].Key, args[p].EndKey)
       IN  /\ args' = [args EXCEPT ![p].Timestamp = ForwardTimestamp(@, max)]
           /\ reply' = [reply EXCEPT ![p].Timestamp =
                            ReplyTimestamp(@, args[p].Timestamp, max)]
    /\ readQ' = ReadQAddWrite(readQ, args[p].Key, args[p].EndKey, p)
    /\ wKey' = [wKey EXCEPT ![p] = p]
    /\ lock' = Unlock(p)
    /\ pc' = [pc EXCEPT ![p] = "rw_send"]
    /\ hist' = [hist EXCEPT !.seen[p] =
            MaxRead(args[p].Key, args[p].EndKey)]
    /\ UNCHANGED <<engine, tsCache, respCache, raft, done, closer, raftPc,
                   method, cmdArgs, ncalls,
                   gossipVars>>

\* EnqueueCmd: r.raft <- cmd
EnqueueCmd_Send(p) ==
    /\ pc[p] = "rw_send"
    /\ Len(raft) < RaftCap
    /\ raft' = Append(raft, [owner |-> p, Method |-> method[p],
                             ReadOnly |-> IsReadOnly(method[p])])
    /\ pc' = [pc EXCEPT ![p] = "rw_recv"]
    /\ hist' = [hist EXCEPT !.sub[p] = TRUE]
    /\ UNCHANGED <<engine, tsCache, readQ, respCache, done, closer, raftPc,
                   lock, method, args, reply, wKey, cmdArgs, ncalls,
                   gossipVars>>

\* EnqueueCmd: return <-cmd.done, then r.Lock() in ReadWriteCmd
ReadWriteCmd_Lock2(p) ==
    /\ pc[p] = "rw_recv"
    /\ done[p] # None
    /\ lock = 0
    /\ lock' = p
    /\ pc' = [pc EXCEPT ![p] = "rw_remove"]
    /\ UNCHANGED <<engine, tsCache, readQ, respCache, raft, done, closer,
                   raftPc, method, args, reply, wKey, cmdArgs, ncalls, hist,
                   gossipVars>>

\* a completed command that leaves its pending write behind when it failed
RemovePending_OnSuccess(q, h, e) ==
    IF e = NoErr THEN ReadQRemoveWrite(q, h) ELSE q

\* the read queue after the bookkeeping of a completed command, e its result
RemovePending(q, h, e) == ReadQRemoveWrite(q, h)

\* r.readQ.RemoveWrite(wKey); r.Unlock(); return err
ReadWriteCmd_RemoveWrite(p) ==
    /\ pc[p] = "rw_remove"
    /\ readQ' = RemovePending(readQ, wKey[p], done[p][1])
    /\ lock' = Unlock(p)
    /\ done' = [done EXCEPT ![p] = None]
    /\ Return(p)
    /\ hist' = Finished([hist EXCEPT !.pend = [r \in Procs |-> @[r] \ {p}]],
                        p, reply[p], done[p][1])
    /\ UNCHANGED <<engine, tsCache, respCache, raft, closer, raftPc, cmdArgs,
                   ncalls,
                   gossipVars>>

\* ------------------------------------------------------ Start, Stop, raft
\* the step of a rebroadcast that gossipFault makes fail
GossipFaults == {"none", "scan", "decode", "addinfo"}

\* maybeGossipClusterID: a failure of AddInfo is logged
maybeGossipClusterID(g, desc, fault) ==
    IF g # NilGossip /\ IsFirstRange(desc) /\ IsLeader /\ fault # "addinfo"
    THEN <<[g[1] EXCEPT !.clusterID = TRUE]>>
    ELSE g

\* maybeGossipFirstRange: a failure of AddInfo is logged
maybeGossipFirstRange(g, desc, fault) ==
    IF g # NilGossip /\ IsFirstRange(desc) /\ IsLeader /\ fault # "addinfo"
    THEN <<[g[1] EXCEPT !.firstRange = TRUE]>>
    ELSE g

\* loadConfigMap(keyPrefix, configI): the scan of the rows under the prefix
\* and the decoding of each row found; ok tells whether err is nil
loadConfigMap(cfgs, i, fault) ==
    IF fault = "scan" THEN [ok |-> FALSE, configMap |-> None]
    ELSE IF fault = "decode" /\ cfgs[i] # Nil
    THEN [ok |-> FALSE, configMap |-> None]
    ELSE [ok |-> TRUE, configMap |-> <<cfgs[i]>>]

\* maybeGossipConfigs: every entry of the table that is dirty and whose prefix
\* the range contains is loaded and added to gossip; a failure is logged and
\* the entry skipped.  cp is a copy of the table entry, so cp.dirty = false
\* does not reach configPrefixes: the flags dty are left as they are.
maybeGossipConfigs(g, cfgs, dty, desc, fault) ==
    LET tried(i) == dty[i] /\ ContainsKey(desc, keyPrefix(i))
        added(i) == /\ tried(i)
                    /\ loadConfigMap(cfgs, i, fault).ok
                    /\ fault # "addinfo"
    IN  IF g # NilGossip /\ IsLeader
        THEN <<[g[1] EXCEPT
                !.configs = [i \in Prefixes |->
                    IF added(i) THEN loadConfigMap(cfgs, i, fault).configMap
                    ELSE @[i]],
                !.failed = [i \in Prefixes |->
                    IF tried(i) THEN ~added(i) ELSE @[i]]]>>
        ELSE g

\* an internalPut that returns the failure of the rebroadcast
internalPut_Config_FailOnGossip(i, value, cfgs, g, dty, desc, engFail, fault) ==
    LET r == internalPut(i, value, cfgs, engFail)
        g2 == maybeGossipConfigs(g, r.engine, dty, desc, fault)
    IN  IF r.err # NoErr
        THEN [configs |-> cfgs, gossip |-> g, dirty |-> dty, err |-> r.err]
        ELSE [configs |-> r.engine, gossip |-> g2, dirty |-> dty,
              err |-> IF g2 # NilGossip /\ g2[1].failed[i]
                      THEN "gossip error" ELSE NoErr]

\* internalPut of a key under configuration prefix i: the put, then for the
\* entry of the table with that prefix cp.dirty = true (on the copy cp) and
\* r.maybeGossipConfigs(); the error is that of the put alone
internalPut_Config(i, value, cfgs, g, dty, desc, engFail, fault) ==
    LET r == internalPut(i, value, cfgs, engFail)
    IN  IF r.err # NoErr
        THEN [configs |-> cfgs, gossip |-> g, dirty |-> dty, err |-> r.err]
        ELSE [configs |-> r.engine,
              gossip |-> maybeGossipConfigs(g, r.engine, dty, desc, fault),
              dirty |-> dty, err |-> NoErr]

\* Start: r.maybeGossipClusterID(); r.maybeGossipFirstRange();
\* r.maybeGossipConfigs(); go r.processRaft();
\* if r.IsFirstRange() { go r.startGossip() }
Start ==
    /\ raftPc = "init"
    /\ raftPc' = "select"
    /\ gossip' = maybeGossipConfigs(
                    maybeGossipFirstRange(
                        maybeGossipClusterID(gossip, meta, gossipFault),
                        meta, gossipFault),
                    configs, dirty, meta, gossipFault)
    /\ gossipPc' = IF IsFirstRange(meta) THEN "select" ELSE gossipPc
    /\ UNCHANGED <<engine, tsCache, readQ, respCache, raft, done, closer, lock,
                   pc, method, args, reply, wKey, cmdArgs, ncalls, hist,
                   meta, configs, dirty, gossipFault, probe>>

\* Stop: close(r.closer)
Stop ==
    /\ ~closer
    /\ closer' = TRUE
    /\ UNCHANGED <<engine, tsCache, readQ, respCache, raft, done, raftPc, lock,
                   pc, method, args, reply, wKey, cmdArgs, ncalls, hist,
                   gossipVars>>

\* a receive that leaves the command on the channel
RaftRecv_Peek(ch) == ch

\* r.raft after cmd := <-r.raft
RaftRecv(ch) == Tail(ch)

\* processRaft, case cmd := <-r.raft:
\*     cmd.done <- r.executeCmd(cmd.Method, cmd.Args, cmd.Reply)
processRaft_Cmd ==
    /\ raftPc = "select"
    /\ raft # <<>>
    /\ LET cmd == Head(raft)
           o == cmd.owner
           c == args[o].CmdID
       IN  \E engFail \in BOOLEAN, putFail \in BOOLEAN :
            LET x == executeCmd(cmd.Method, args[o], reply[o], engine,
                                respCache, engFail, putFail)
            IN  /\ engine' = x.engine
                /\ reply' = [reply EXCEPT ![o] = x.reply]
                /\ respCache' = x.respCache
                /\ done' = [done EXCEPT ![o] = <<x.err>>]
                /\ hist' = [hist EXCEPT
                        !.execs[c] = @ + (IF x.executed THEN 1 ELSE 0),
                        !.puts[c] = @ + x.puts,
                        !.fault[c] = @ \/ (x.cached /\ putFail),
                        !.engfault[c] = @ \/ (x.executed /\ engFail)]
    /\ raft' = RaftRecv(raft)
    /\ UNCHANGED <<tsCache, readQ, closer, raftPc, lock, pc, method, args,
                   wKey, cmdArgs, ncalls,
                   gossipVars>>

\* processRaft, case <-r.closer: return
processRaft_Closer ==
    /\ raftPc = "select"
    /\ closer
    /\ raftPc' = "returned"
    /\ UNCHANGED <<engine, tsCache, readQ, respCache, raft, done, closer, lock,
                   pc, method, args, reply, wKey, cmdArgs, ncalls, hist,
                   gossipVars>>

Next ==
    \/ \E p \in Procs : ReadOnlyCmd_Lock(p)
    \/ \E p \in Procs : ReadOnlyCmd_Register(p)
    \/ \E p \in Procs : ReadOnlyCmd_Exec(p)
    \/ \E p \in Procs : ReadWriteCmd_Call(p)
    \/ \E p \in Procs : ReadWriteCmd_GetResponse(p)
    \/ \E p \in Procs : ReadWriteCmd_Lock(p)
    \/ \E p \in Procs : ReadWriteCmd_Bookkeep(p)
    \/ \E p \in Procs : EnqueueCmd_Send(p)
    \/ \E p \in Procs : ReadWriteCmd_Lock2(p)
    \/ \E p \in Procs : ReadWriteCmd_RemoveWrite(p)
    \/ Start
    \/ processRaft_Cmd

\* a Range that is not stopped
Spec == Init /\ [][Next]_vars

\* a Range that may be stopped; Stop only takes steps of processRaft away, so
\* what the callers can reach with it they can reach without it
NextStop ==
    \/ Next
    \/ Stop
    \/ processRaft_Closer

SpecStop == Init /\ [][NextStop]_vars

\* ----------------------------------------------------------- properties
\* the clients' request under ClientCmdID c names a mutating method
Mutating(c) == cmdArgs[c] # None /\ cmdArgs[c][1] \in writeMethods

\* the returned calls of ClientCmdID c
Results(c) == hist.results[c]

\* C1: a write that made its timestamp check after an overlapping read had
\* registered is submitted with a header timestamp strictly greater than the
\* timestamp of that read, whatever the order of the two original timestamps.
C1_WriteAfterRead ==
    \A p \in Pending :
        hist.seen[p] # <<>> => Less(hist.seen[p][1], args[p].Timestamp)

C4_ReadWaitsForWrites ==
    [][\A p \in Procs :
        /\ (pc[p] = "ro_wait" /\ pc'[p] = "idle") =>
                hist.pend[p] = {}
        /\ (pc'[p] = "ro_wait" /\ hist'.pend[p] = {}) =>
                readQ'.waits[p] = {}]_vars

\* a read that registered behind an overlapping pending write has executed
C4_Witness == hist.waited

\* C5: a caller blocked in the wait for overlapping writes, in the send to
\* the raft channel or in the wait for the completion of its command does not
\* hold the lock.
C5_NoLockWhileBlocked ==
    \A p \in Procs : pc[p] \in {"ro_wait", "rw_send", "rw_recv"} => lock # p

\* a reader is blocked behind a write while another caller holds the lock
C5_Witness ==
    \E p, q \in Procs :
        /\ pc[p] = "ro_wait" /\ readQ.waits[p] # {}
        /\ lock = q /\ q # p

\* C6: the pending write of a ReadWriteCmd is removed, under the lock, before
\* the call returns, whatever the result of the command: the read queue holds
\* writes of calls under way only, and a read waits for such writes only.
C6_WriteRemoved ==
    /\ \A w \in readQ.writes : \E q \in Pending : wKey[q] = w.h
    /\ \A p \in Procs : readQ.waits[p] \subseteq {wKey[q] : q \in Pending}
    /\ \A q \in Procs : pc[q] = "rw_remove" => lock = q

\* a read registered over the range of a write that had failed, and did not
\* have to wait
C6_Witness == hist.unblocked

\* C7: when the response cache holds a reply for the ClientCmdID and the
\* lookup decodes it, ReadWriteCmd returns that reply and its error and
\* changes nothing else: header timestamp, timestamp cache, read queue, raft
\* channel, engine and response cache stay as they are.
C7_ReplayFrame ==
    [][\A p \in Procs :
        LET c == args[p].CmdID
            old == hist.results[c]
            new == hist'.results[c]
        IN  (/\ pc[p] = "rw_get" /\ pc'[p] # "rw_get"
             /\ respCache.store[c] # None
             /\ hist'.lookup[p] # "error")
            => (/\ pc'[p] = "idle"
                /\ Len(new) = Len(old) + 1
                /\ new[Len(new)].reply = DecodeReply(respCache.store[c])
                /\ new[Len(new)].err = new[Len(new)].reply.Error
                /\ new[Len(new)].ts = cmdArgs[c][2].Timestamp
                /\ ~new[Len(new)].sub
                /\ UNCHANGED <<engine, tsCache, readQ, respCache, raft, done,
                               lock>>)]_vars

\* a call has been answered from the response cache with a stored error
C7_Witness ==
    \E c \in CmdIDs : \E i \in DOMAIN Results(c) :
        Results(c)[i].lookup = "hit" /\ Results(c)[i].err # NoErr

\* C8: a call whose response cache lookup fails to decode goes on as after a
\* miss, through timestamp check, read queue and raft; the decode error is
\* not returned.
C8_DecodeFailureIsMiss ==
    /\ \A p \in Procs : hist.lookup[p] = "error" =>
            pc[p] \in {"rw_lock", "rw_book", "rw_send", "rw_recv", "rw_remove"}
    /\ \A c \in CmdIDs : \A i \in DOMAIN Results(c) :
            /\ Results(c)[i].err # DecodeErr
            /\ Results(c)[i].lookup = "error" => Results(c)[i].sub

\* a call whose lookup failed to decode has returned
C8_Witness ==
    \E c \in CmdIDs : \E i \in DOMAIN Results(c) :
        Results(c)[i].lookup = "error"

\* C9: in the timestamp check a header timestamp less than the greatest
\* overlapping read timestamp becomes that timestamp with the logical part
\* plus one, in the header and in the reply; otherwise header and reply
\* timestamps stay; the header timestamp does not decrease.
C9_TimestampForwarded ==
    [][\A p \in Procs : (pc[p] = "rw_book" /\ pc'[p] = "rw_send") =>
        LET mr == MaxRead(args[p].Key, args[p].EndKey)
            m == IF mr = <<>> THEN ZeroTS ELSE mr[1]
            old == args[p].Timestamp
            bumped == [wall |-> m.wall, logical |-> m.logical + 1]
        IN  /\ Less(old, m) => /\ args'[p].Timestamp = bumped
                               /\ reply'[p].Timestamp = bumped
            /\ ~Less(old, m) => /\ args'[p].Timestamp = old
                                /\ reply'[p].Timestamp = reply[p].Timestamp
            /\ ~Less(args'[p].Timestamp, old)]_vars

\* a write is pending with header and reply timestamp forwarded past a read
C9_Witness ==
    \E p \in Pending :
        /\ args[p].Timestamp # cmdArgs[args[p].CmdID][2].Timestamp
        /\ reply[p].Timestamp = args[p].Timestamp

\* the step of processRaft that executes the command of caller o
ExecStep(o) == raft # <<>> /\ Head(raft).owner = o /\ raft' = Tail(raft)

\* C10: every execution of a recognized mutating method stores its reply,
\* with or without an error, in the response cache under the ClientCmdID in
\* the same step; the execution of a read-only method leaves the response
\* cache as it is.
C10_ReplyCached ==
    [][\A o \in Procs :
        /\ (ExecStep(o) /\ Head(raft).Method \in writeMethods) =>
                respCache'.store[args[o].CmdID] = EncodeReply(reply'[o])
        /\ (pc[o] = "ro_wait" /\ pc'[o] = "idle") =>
                respCache' = respCache]_vars

\* C10 as amended: the reply is stored unless the response cache write itself
\* fails, and then the stored replies stay as they are.
C10_ReplyCachedUnlessWriteFails ==
    [][\A o \in Procs :
        /\ (ExecStep(o) /\ Head(raft).Method \in writeMethods) =>
                \/ respCache'.store[args[o].CmdID] = EncodeReply(reply'[o])
                \/ /\ respCache'.store = respCache.store
                   /\ hist'.fault[args[o].CmdID]
        /\ (/\ ExecStep(o) /\ Head(raft).Method \in writeMethods
            /\ ~hist'.fault[args[o].CmdID]) =>
                respCache'.store[args[o].CmdID] = EncodeReply(reply'[o])
        /\ (pc[o] = "ro_wait" /\ pc'[o] = "idle") =>
                respCache' = respCache]_vars

\* a reply with an error is stored for an executed command
C10_Witness ==
    \E c \in CmdIDs :
        /\ hist.execs[c] >= 1
        /\ respCache.store[c] # None
        /\ DecodeReply(respCache.store[c]).Error # NoErr

\* C11: when processRaft dispatches a command whose method name is not one of
\* the fourteen known operations, the command fails with the "unrecognized
\* command" error and the storage engine and the response cache are left as
\* they were.
C11_UnrecognizedMethod ==
    [][\A o \in Procs :
        (ExecStep(o) /\ Head(raft).Method \notin KnownMethods) =>
            (/\ done'[o] = <<UnrecognizedErr>>
             /\ engine' = engine
             /\ respCache' = respCache)]_vars

\* a command under an unknown method name has been dispatched
C11_Witness ==
    \E o \in Procs : method[o] \notin KnownMethods \cup {""} /\ done[o] # None

\* a step of the ReadOnlyCmd call of caller p
ReadOnlyStep(p) ==
    \/ pc[p] = "idle" /\ pc'[p] = "ro_reg"
    \/ pc[p] = "ro_reg" /\ pc'[p] = "ro_wait"
    \/ pc[p] = "ro_wait" /\ pc'[p] = "idle"

\* C12: no step of a ReadOnlyCmd call sends a Cmd to r.raft or adds a write
\* to the read queue, and the call returns from its wait in a step of its own
\* caller: the step is not one of processRaft, which neither moves nor answers
\* a Cmd in it.
C12_ReadOnlyBypassesRaft ==
    [][\A p \in Procs : ReadOnlyStep(p) =>
            (/\ raft' = raft
             /\ readQ'.writes = readQ.writes
             /\ raftPc' = raftPc
             /\ done' = done)]_vars

\* a read has registered and returned while processRaft has not been started
C12_Witness ==
    /\ \E k \in Keys : hist.maxRead[k] # <<>>
    /\ \A p \in Procs : pc[p] = "idle"
    /\ raftPc = "init"

\* C13: once Stop has closed r.closer, processRaft executes no further
\* command: with the stop signal and a queued command both ready, the loop
\* returns.
C13_StopPreferred ==
    [][closer => ~(raft # <<>> /\ raft' = Tail(raft))]_vars

\* ------------------------------------------- direct calls of the operations
\* values written by the direct calls
OpValues == 1..3

\* the requests of a direct call under method m
OpRequests(m) ==
    IF m = Put
    THEN {[NoArgs EXCEPT !.Key = k, !.Value = v] : k \in Keys, v \in OpValues}
    ELSE IF m = ConditionalPut
    THEN {[NoArgs EXCEPT !.Key = k, !.Value = v, !.ExpValue = e] :
            k \in Keys, v \in OpValues, e \in OpValues \cup {Nil}}
    ELSE IF m = Increment
    THEN {[NoArgs EXCEPT !.Key = k, !.Increment = 1] : k \in Keys}
    ELSE IF m = Scan
    THEN {[NoArgs EXCEPT !.Key = k, !.EndKey = NKeys + 1] : k \in Keys}
    ELSE IF m \in {Contains, Get, Delete}
    THEN {[NoArgs EXCEPT !.Key = k] : k \in Keys}
    ELSE {[NoArgs EXCEPT !.Key = 1]}

\* a direct call of the handler of a known method on a fresh reply, with the
\* classification of the method: r.Get(args, reply), r.Put(args, reply), ...
\* engFail: the first engine call of the handler fails; putFail: the
\* engine.put of a ConditionalPut fails
DirectCall ==
    \E m \in KnownMethods : \E a \in OpRequests(m) :
    \E engFail \in BOOLEAN, putFail \in BOOLEAN :
        LET d == IF m = ConditionalPut
                 THEN ConditionalPutOp(a, EmptyReply, engine, engFail, putFail)
                 ELSE Dispatch(m, a, EmptyReply, engine, engFail)
        IN  /\ m = Increment => engine[a.Key] < 3
            /\ engine' = d.engine
            /\ method' = [method EXCEPT ![1] = m]
            /\ args' = [args EXCEPT ![1] = a]
            /\ reply' = [reply EXCEPT ![1] = d.reply]
            /\ probe' = <<[fn |-> m, engFail |-> engFail,
                           putFail |-> putFail /\ m = ConditionalPut,
                           readOnly |-> IsReadOnly(m),
                           needRead |-> NeedReadPerm(m),
                           needWrite |-> NeedWritePerm(m)]>>
            /\ UNCHANGED <<tsCache, readQ, respCache, raft, done, closer,
                           raftPc, lock, pc, wKey, cmdArgs, ncalls, hist, meta,
                           configs, dirty, gossip, gossipPc, gossipFault>>

\* a Range whose operations are called directly, one after the other
SpecOps == Init /\ [][DirectCall]_vars

\* the operation surface of the specification: methods marked R, W and RW
TableR == {Contains, Get, Scan, InternalRangeLookup}

TableW ==
    {Put, Increment, Delete, DeleteRange, EndTransaction, AccumulateTS,
     EnqueueUpdate, EnqueueMessage}

TableRW == {ConditionalPut, ReapQueue}

\* C14: IsReadOnly is true exactly for the methods marked R; a method needs
\* read permission iff it is marked R or RW and write permission iff it is
\* marked W or RW.
C14_MethodTable ==
    probe # None =>
        LET c == probe[1]
        IN  /\ c.readOnly <=> c.fn \in TableR
            /\ c.needRead <=> c.fn \in TableR \cup TableRW
            /\ c.needWrite <=> c.fn \in TableW \cup TableRW

\* C14 as the code has it: IsReadOnly is true exactly for the methods marked
\* R and write permission is needed iff the method is marked W or RW; read
\* permission is needed by the methods marked R or RW and by Increment, which
\* returns the value it read and changed.
C14_MethodTableWithIncrement ==
    probe # None =>
        LET c == probe[1]
        IN  /\ c.readOnly <=> c.fn \in TableR
            /\ c.needRead <=> c.fn \in TableR \cup TableRW \cup {Increment}
            /\ c.needWrite <=> c.fn \in TableW \cup TableRW

\* Increment has been classified
C14_Witness ==
    probe # None /\ probe[1].fn = Increment /\ probe[1].needRead

\* C15: a ConditionalPut stores the new value iff the current value of the key
\* matches the expectation (the expected value, or no value expected and the
\* key absent) and the engine works; in every other case the engine is left
\* as it was and the reply carries an error.
C15_ConditionalPut ==
    [][(method'[1] = ConditionalPut /\ probe' # None) =>
        LET a == args'[1]
            stores == /\ a.ExpValue = engine[a.Key]
                      /\ ~probe'[1].engFail
                      /\ ~probe'[1].putFail
        IN  IF stores
            THEN /\ engine' = [engine EXCEPT ![a.Key] = a.Value]
                 /\ reply'[1].Error = NoErr
            ELSE /\ engine' = engine
                 /\ reply'[1].Error # NoErr]_vars

\* with the key at 2, ConditionalPut(expect 1, new 3) has failed on a working
\* engine and left the key at 2
C15_Witness ==
    /\ probe # None
    /\ method[1] = ConditionalPut
    /\ ~probe[1].engFail
    /\ args[1].ExpValue = 1
    /\ args[1].Value = 3
    /\ engine[args[1].Key] = 2
    /\ reply[1].Error # NoErr

\* C16: a ConditionalPut that fails because the key holds a value other than
\* the expected one, the case of no value expected included, reports the
\* value the key holds in reply.ActualValue.
C16_ActualValueReported ==
    [][(method'[1] = ConditionalPut /\ probe' # None) =>
        LET a == args'[1]
        IN  (/\ ~probe'[1].engFail
             /\ engine[a.Key] # Nil
             /\ a.ExpValue # engine[a.Key])
            => reply'[1].ActualValue = engine[a.Key]]_vars

\* ------------------------------------------------- configuration gossip
\* values of the configuration rows
CfgValues == 1..2

\* the ranges of the gossip runs: the whole key space, the first range ending
\* past the first configuration prefix, and the range of the other prefixes
Descriptors ==
    {WholeRange,
     [StartKey |-> KeyMin, EndKey |-> keyPrefix(2)],
     [StartKey |-> keyPrefix(2), EndKey |-> KeyMax]}

\* a Range constructed with a gossip handle, over any of the ranges, with any
\* step of the rebroadcast failing
InitGossip ==
    /\ engine = [k \in Keys |-> Nil]
    /\ tsCache = [k \in Keys |-> ZeroTS]
    /\ readQ = [writes |-> {}, waits |-> [p \in Procs |-> {}]]
    /\ respCache = [store |-> [c \in CmdIDs |-> None], inflight |-> {}]
    /\ raft = <<>>
    /\ done = [p \in Procs |-> None]
    /\ closer = FALSE
    /\ raftPc = "init"
    /\ lock = 0
    /\ pc = [p \in Procs |-> "idle"]
    /\ method = [p \in Procs |-> ""]
    /\ args = [p \in Procs |-> NoArgs]
    /\ reply = [p \in Procs |-> EmptyReply]
    /\ wKey = [p \in Procs |-> 0]
    /\ cmdArgs = [c \in CmdIDs |-> None]
    /\ ncalls = 0
    /\ hist = HistInit
    /\ meta \in Descriptors
    /\ configs = [i \in Prefixes |-> Nil]
    /\ dirty = [i \in Prefixes |-> TRUE]
    /\ gossip = NoInfos
    /\ gossipPc = "init"
    /\ gossipFault \in GossipFaults
    /\ probe = None

\* r.Put(args, reply) for a key under configuration prefix i
Put_Config ==
    \E i \in Prefixes, v \in CfgValues, engFail \in BOOLEAN :
        LET r == internalPut_Config(i, v, configs, gossip, dirty, meta,
                                    engFail, gossipFault)
        IN  /\ configs' = r.configs
            /\ gossip' = r.gossip
            /\ dirty' = r.dirty
            /\ method' = [method EXCEPT ![1] = Put]
            /\ args' = [args EXCEPT ![1] =
                            [NoArgs EXCEPT !.Key = keyPrefix(i), !.Value = v]]
            /\ reply' = [reply EXCEPT ![1] = [EmptyReply EXCEPT !.Error = r.err]]
            /\ probe' = <<[fn |-> Put, engFail |-> engFail, putFail |-> FALSE,
                           readOnly |-> IsReadOnly(Put),
                           needRead |-> NeedReadPerm(Put),
                           needWrite |-> NeedWritePerm(Put)]>>
            /\ UNCHANGED <<engine, tsCache, readQ, respCache, raft, done,
                           closer, raftPc, lock, pc, wKey, cmdArgs, ncalls,
                           hist, meta, gossipPc, gossipFault>>

\* startGossip, case <-ticker.C:
\*     r.maybeGossipClusterID(); r.maybeGossipFirstRange()
startGossip_Tick ==
    /\ gossipPc = "select"
    /\ gossip' = maybeGossipFirstRange(
                    maybeGossipClusterID(gossip, meta, gossipFault),
                    meta, gossipFault)
    /\ hist' = [hist EXCEPT !.passes = 1 - @]
    /\ UNCHANGED <<engine, tsCache, readQ, respCache, raft, done, closer,
                   raftPc, lock, pc, method, args, reply, wKey, cmdArgs,
                   ncalls, meta, configs, dirty, gossipPc, gossipFault,
                   probe>>

\* startGossip, case <-r.closer: return
startGossip_Closer ==
    /\ gossipPc = "select"
    /\ closer
    /\ gossipPc' = "returned"
    /\ UNCHANGED <<engine, tsCache, readQ, respCache, raft, done, closer,
                   raftPc, lock, pc, method, args, reply, wKey, cmdArgs,
                   ncalls, hist, meta, configs, dirty, gossip, gossipFault,
                   probe>>

\* the failure of the rebroadcast clears
Repair ==
    /\ gossipFault # "none"
    /\ gossipFault' = "none"
    /\ UNCHANGED <<engine, tsCache, readQ, respCache, raft, done, closer,
                   raftPc, lock, pc, method, args, reply, wKey, cmdArgs,
                   ncalls, hist, meta, configs, dirty, gossip, gossipPc,
                   probe>>

NextGossip ==
    \/ Start
    \/ Stop
    \/ Put_Config
    \/ startGossip_Tick
    \/ startGossip_Closer
    \/ processRaft_Closer
    \/ Repair

\* a Range with a gossip handle and Puts under the configuration prefixes
SpecGossip == InitGossip /\ [][NextGossip]_vars

\* the ticker of startGossip fires again and again
SpecGossipFair == SpecGossip /\ WF_vars(startGossip_Tick)

\* the configuration prefix of the key of the last Put
PrefixOf(key) == key - NKeys

\* the configuration map of prefix i in gossip is the one of the rows now in
\* the engine
Published(i) == gossip[1].configs[i] = <<configs[i]>>

\* C17: a Put under a configuration prefix whose engine write succeeded has
\* no error in its reply and its value is in the engine, whether or not the
\* rebroadcast it triggered failed.
C17_RebroadcastFailureSwallowed ==
    (probe # None /\ ~probe[1].engFail) =>
        (/\ reply[1].Error = NoErr
         /\ configs[PrefixOf(args[1].Key)] = args[1].Value)

\* a Put under a prefix of the range succeeded while its rebroadcast failed
C17_Witness ==
    /\ probe # None
    /\ ~probe[1].engFail
    /\ gossip[1].failed[PrefixOf(args[1].Key)]
    /\ ~Published(PrefixOf(args[1].Key))
    /\ reply[1].Error = NoErr

\* C18: a prefix whose rebroadcast failed is published again by the periodic
\* gossip task once the failure has cleared, without another Put, unless the
\* range is stopped.
C18_RetriedByGossipTask ==
    \A i \in Prefixes :
        (gossip[1].failed[i] /\ gossipFault = "none" /\ gossipPc = "select")
            ~> (Published(i) \/ closer)

\* --------------------------------------------- functions of config.go
\* the keys of the whole key space, KeyMin and KeyMax included
AllKeys == KeyMin..KeyMax

\* attribute strings
AttrNames == {"ssd", "hdd"}

\* attribute lists: lists of strings, repetitions allowed
AttrLists ==
    UNION {[1..n -> AttrNames] : n \in 0..MaxAttrs}

\* Attributes.IsSubset: the strings of b are put in the map m; false as soon
\* as a string of a is not in m
IsSubset(a, b) ==
    LET m == {b[j] : j \in 1..Len(b)}
    IN  \A i \in 1..Len(a) : a[i] \in m

\* a call of RangeDescriptor.ContainsKey on a descriptor with
\* StartKey <= EndKey
ContainsKey_Call ==
    \E start \in AllKeys, end \in AllKeys, key \in AllKeys :
        /\ start <= end
        /\ probe' = <<[fn |-> "ContainsKey",
                       desc |-> [StartKey |-> start, EndKey |-> end],
                       key |-> key,
                       out |-> ContainsKey([StartKey |-> start,
                                            EndKey |-> end], key)]>>
        /\ UNCHANGED <<engine, tsCache, readQ, respCache, raft, done, closer,
                       raftPc, lock, pc, method, args, reply, wKey, cmdArgs,
                       ncalls, hist, meta, configs, dirty, gossip, gossipPc,
                       gossipFault>>

\* a call of a.IsSubset(b)
IsSubset_Call ==
    \E a \in AttrLists, b \in AttrLists :
        /\ probe' = <<[fn |-> "IsSubset", a |-> a, b |-> b,
                       out |-> IsSubset(a, b)]>>
        /\ UNCHANGED <<engine, tsCache, readQ, respCache, raft, done, closer,
                       raftPc, lock, pc, method, args, reply, wKey, cmdArgs,
                       ncalls, hist, meta, configs, dirty, gossip, gossipPc,
                       gossipFault>>

\* RangeDescriptor.ContainsKeyRange: an empty end (the key KeyMin) stands for
\* start; panic when the end is before the start, and the result otherwise
ContainsKeyRange(desc, start, end) ==
    LET e == IF end = KeyMin THEN start ELSE end
    IN  IF e < start
        THEN [panic |-> TRUE, out |-> FALSE]
        ELSE [panic |-> FALSE,
              out |-> ~(start < desc.StartKey) /\ ~(desc.EndKey < e)]

\* a call of RangeDescriptor.ContainsKeyRange on a descriptor with
\* StartKey <= EndKey
ContainsKeyRange_Call ==
    \E s \in AllKeys, e \in AllKeys, start \in AllKeys, end \in AllKeys :
        /\ s <= e
        /\ LET desc == [StartKey |-> s, EndKey |-> e]
               r == ContainsKeyRange(desc, start, end)
           IN  probe' = <<[fn |-> "ContainsKeyRange", desc |-> desc,
                           start |-> start, end |-> end,
                           panic |-> r.panic, out |-> r.out]>>
        /\ UNCHANGED <<engine, tsCache, readQ, respCache, raft, done, closer,
                       raftPc, lock, pc, method, args, reply, wKey, cmdArgs,
                       ncalls, hist, meta, configs, dirty, gossip, gossipPc,
                       gossipFault>>

NextFn ==
    \/ ContainsKey_Call
    \/ IsSubset_Call
    \/ ContainsKeyRange_Call

\* calls of the functions of config.go, one after the other
SpecFn == Init /\ [][NextFn]_vars

\* C19: on a descriptor with StartKey <= EndKey, ContainsKey(k) is true iff
\* StartKey <= k < EndKey.
C19_ContainsKey ==
    (probe # None /\ probe[1].fn = "ContainsKey") =>
        (probe[1].out <=> (/\ probe[1].desc.StartKey <= probe[1].key
                           /\ probe[1].key < probe[1].desc.EndKey))

\* ContainsKey has been called with the end key of a range that is not empty
C19_Witness ==
    /\ probe # None
    /\ probe[1].fn = "ContainsKey"
    /\ probe[1].desc.StartKey < probe[1].desc.EndKey
    /\ probe[1].key = probe[1].desc.EndKey
    /\ ~probe[1].out

\* C20: a.IsSubset(b) is true iff every element of b occurs in a.
C20_IsSubset ==
    (probe # None /\ probe[1].fn = "IsSubset") =>
        (probe[1].out <=>
            \A j \in 1..Len(probe[1].b) :
                \E i \in 1..Len(probe[1].a) : probe[1].a[i] = probe[1].b[j])


\* a step in which caller p looks its ClientCmdID up in the response cache
GetResponseStep(p) == pc[p] = "rw_get" /\ pc'[p] # "rw_get"

\* a step in which executeCmd hands the reply of caller o to the response cache
PutResponseStep(o) ==
    /\ ExecStep(o)
    /\ method[o] \in KnownMethods
    /\ ~IsReadOnly(method[o])

\* C21: every access to the timestamp cache, the read queue and the response
\* cache is made by the thread that holds the mutex of the Range at that
\* moment: a step that calls GetResponse or PutResponse, or that changes one of
\* the three structures, is a step of the caller holding the lock.
C21_CachesUnderLock ==
    [][((\E p \in Procs : GetResponseStep(p) \/ PutResponseStep(p))
            \/ tsCache' # tsCache \/ readQ' # readQ
            \/ respCache' # respCache)
        => \E p \in Procs : lock = p /\ pc'[p] # pc[p]]_vars

\* C22: when executeCmd has run a mutating operation and the response cache
\* write that follows leaves the reply unstored, the value sent to cmd.done is
\* exactly the error set in the reply of the operation (nil if none), and the
\* engine and the reply are as the operation left them.
C22_CacheWriteFailureSwallowed ==
    [][\A o \in Procs :
        (PutResponseStep(o)
            /\ respCache'.store[args[o].CmdID] # EncodeReply(reply'[o]))
        => \E engFail \in BOOLEAN :
            LET d == Dispatch(method[o], args[o], reply[o], engine, engFail)
            IN  /\ engine' = d.engine
                /\ reply'[o] = d.reply
                /\ done'[o] = <<d.reply.Error>>]_vars

\* a Put has been executed with its value in the engine and no error reported
\* on cmd.done, while the write of its reply to the response cache failed
C22_Witness ==
    \E o \in Procs :
        /\ pc[o] = "rw_recv"
        /\ method[o] = Put
        /\ done[o] = <<NoErr>>
        /\ engine[args[o].Key] = args[o].Value
        /\ hist.fault[args[o].CmdID]
        /\ respCache.store[args[o].CmdID] = None

\* C23: of a ReadOnlyCmd r and a ReadWriteCmd w over overlapping ranges, in
\* every interleaving either r cannot run before w has completed and its
\* pending write has been removed from the read queue, or the timestamp w is
\* submitted with is not less than the timestamp of r; the timestamp check of
\* a write and its registration in the read queue, and the registration of a
\* read, are made under the mutex, so that no read registers between the two.
C23_ReadWriteOrder ==
    /\ \A p \in Procs, q \in Pending :
        (/\ pc[p] = "ro_wait"
         /\ Overlaps(args[q].Key, args[q].EndKey, args[p].Key, args[p].EndKey))
        => \/ wKey[q] \in readQ.waits[p] /\ ~WaitDone(readQ, p)
           \/ ~Less(args[q].Timestamp, args[p].Timestamp)
    /\ \A q \in Pending :
        hist.seen[q] # <<>> => ~Less(args[q].Timestamp, hist.seen[q][1])
    /\ \A p \in Procs : pc[p] \in {"ro_reg", "rw_book"} => lock = p

\* a read is free to run while an overlapping write is pending: the read
\* registered first, and the write was forwarded past the timestamp of the read
C23_Witness ==
    \E p \in Procs, q \in Pending :
        /\ pc[p] = "ro_wait"
        /\ Overlaps(args[q].Key, args[q].EndKey, args[p].Key, args[p].EndKey)
        /\ WaitDone(readQ, p)
        /\ args[q].Timestamp = LogicalInc(args[p].Timestamp)

\* the callers inside ReadWriteCmd
InReadWriteCmd ==
    {q \in Procs : pc[q] \in {"rw_get", "rw_lock", "rw_book", "rw_send",
                              "rw_recv", "rw_remove"}}

\* C24: in every reachable state the pending writes of the read queue are
\* exactly the ReadWriteCmd calls that have completed AddWrite and not yet
\* RemoveWrite, each with one entry under its own handle and over its own
\* range; when no ReadWriteCmd is in flight the queue holds no pending write.
C24_PendingWrites ==
    /\ readQ.writes = {[h |-> wKey[q], start |-> args[q].Key,
                        end |-> args[q].EndKey] : q \in Pending}
    /\ Cardinality(readQ.writes) = Cardinality(Pending)
    /\ \A q \in Procs : q \notin Pending => wKey[q] = 0
    /\ InReadWriteCmd = {} => readQ.writes = {}

\* two calls are between AddWrite and RemoveWrite at once, each with its entry
C24_Witness ==
    /\ Cardinality(Pending) = 2
    /\ Cardinality(readQ.writes) = 2

\* the steps of caller p inside ReadOnlyCmd and ReadWriteCmd
CallerStep(p) ==
    \/ ReadOnlyCmd_Register(p)
    \/ ReadOnlyCmd_Exec(p)
    \/ ReadWriteCmd_GetResponse(p)
    \/ ReadWriteCmd_Lock(p)
    \/ ReadWriteCmd_Bookkeep(p)
    \/ EnqueueCmd_Send(p)
    \/ ReadWriteCmd_Lock2(p)
    \/ ReadWriteCmd_RemoveWrite(p)

\* Stop is never called, the Range is started, the processRaft goroutine and
\* every caller are scheduled again and again
SpecLive ==
    /\ Spec
    /\ WF_vars(Start)
    /\ WF_vars(processRaft_Cmd)
    /\ \A p \in Procs : WF_vars(CallerStep(p))

\* with Stop never called and everything scheduled fairly, every ReadOnlyCmd
\* call and every ReadWriteCmd call eventually returns
EveryCallReturns ==
    \A p \in Procs : (pc[p] # "idle") ~> (pc[p] = "idle")

\* the same of the calls of the methods executeCmd recognizes
KnownCallsReturn ==
    \A p \in Procs :
        (pc[p] # "idle" /\ method[p] # Bogus) ~> (pc[p] = "idle")

Queued(o) == Cardinality({i \in DOMAIN raft : raft[i].owner = o})

\* C26: the commands sent to r.raft are executed by processRaft one per step
\* and in the order of the channel: a command enters at the tail and leaves at
\* the head, the engine changes only in the step that takes the head, and that
\* step executes this one command and puts the result of this execution on its
\* cmd.done, which was empty; a command is on the channel until it is
\* executed and never afterwards, so that it is executed at most once and its
\* cmd.done is fulfilled exactly once.
C26_ChannelOrder ==
    /\ [](\A o \in Procs :
            /\ Queued(o) <= 1
            /\ (Queued(o) = 1 \/ done[o] # None) =>
                    pc[o] \in {"rw_recv", "rw_remove"}
            /\ pc[o] = "rw_recv" => (Queued(o) = 1 <=> done[o] = None)
            /\ pc[o] = "rw_remove" => (Queued(o) = 0 /\ done[o] # None))
    /\ [][/\ raft' # raft =>
                \/ raft # <<>> /\ raft' = Tail(raft)
                \/ \E p \in Procs :
                    /\ pc[p] = "rw_send"
                    /\ raft' = Append(raft, [owner |-> p, Method |-> method[p],
                                             ReadOnly |-> IsReadOnly(method[p])])
          /\ engine' # engine => raft # <<>> /\ raft' = Tail(raft)
          /\ \A o \in Procs :
                (done'[o] # done[o] /\ done'[o] # None) =>
                    /\ ExecStep(o)
                    /\ done[o] = None
                    /\ \A q \in Procs \ {o} : done'[q] = done[q]
                    /\ \E engFail \in BOOLEAN, putFail \in BOOLEAN :
                        LET x == executeCmd(Head(raft).Method, args[o],
                                            reply[o], engine, respCache,
                                            engFail, putFail)
                        IN  /\ done'[o] = <<x.err>>
                            /\ engine' = x.engine
                            /\ reply'[o] = x.reply
          /\ \A o \in Procs : ExecStep(o) => done'[o] # None]_vars

\* the command sent first has been executed and its cmd.done fulfilled while
\* the command sent after it is still on the channel
C26_Witness ==
    \E o \in Procs, q \in Procs :
        /\ o # q
        /\ pc[o] = "rw_recv" /\ done[o] # None
        /\ pc[q] = "rw_recv" /\ raft = <<[owner |-> q, Method |-> method[q],
                                          ReadOnly |-> IsReadOnly(method[q])]>>

\* C27: the map of a prefix is published only while its entry of
\* configPrefixes is dirty, and a successful publication leaves the entry
\* clean until the next Put under the prefix: whenever the map of a prefix is
\* in gossip and its last rebroadcast did not fail, the dirty flag of the
\* prefix is false, so that a further call of maybeGossipConfigs does not
\* publish it again.
C27_CleanAfterPublication ==
    \A i \in Prefixes :
        (/\ gossip # NilGossip
         /\ gossip[1].configs[i] # None
         /\ ~gossip[1].failed[i])
        => ~dirty[i]

\* C28: with an empty end, ContainsKeyRange(start, end) answers as
\* ContainsKey(start) does, for every start, the EndKey of the descriptor
\* included; with an end that is not empty and start <= end, it is true iff
\* StartKey <= start and end <= EndKey.
C28_ContainsKeyRange ==
    (probe # None /\ probe[1].fn = "ContainsKeyRange") =>
        /\ probe[1].end = KeyMin =>
            /\ ~probe[1].panic
            /\ probe[1].out = ContainsKey(probe[1].desc, probe[1].start)
        /\ (probe[1].end # KeyMin /\ probe[1].start <= probe[1].end) =>
            /\ ~probe[1].panic
            /\ probe[1].out <=> (/\ probe[1].desc.StartKey <= probe[1].start
                                 /\ probe[1].end <= probe[1].desc.EndKey)

\* the part of C28 about an end that is not empty
ContainsKeyRange_NonEmptyEnd ==
    (/\ probe # None /\ probe[1].fn = "ContainsKeyRange"
     /\ probe[1].end # KeyMin /\ probe[1].start <= probe[1].end) =>
        /\ ~probe[1].panic
        /\ probe[1].out <=> (/\ probe[1].desc.StartKey <= probe[1].start
                             /\ probe[1].end <= probe[1].desc.EndKey)
====
